---------------------------- MODULE Spec2Model ----------------------------
(***************************************************************************)
(* qwebdriver: the interactive web driver (qwebdriver/iwebdriver.py) and   *)
(* the parts of the engine-side driver (qwebdriver/webdriver.py) that it   *)
(* drives.                                                                 *)
(*                                                                         *)
(* Two processes.  The controller (main) process runs the caller's thread  *)
(* and, once interception was requested, the _Interceptor thread.  The     *)
(* worker (secondary) process runs the Qt thread (event loop, the slot     *)
(* _sync_driver, the WebDriver operations, interceptRequest) and the       *)
(* _MessageWorker QThread.  They are joined by two duplex pipes:           *)
(*   driver_chann1 (worker)  <-> driver_chann2 (controller)                *)
(*   interceptor_chann1 (worker, and a copy kept by the controller as      *)
(*   _interceptor_chann_recv) <-> interceptor_chann2 (controller)          *)
(* Each direction of a pipe is a FIFO queue:                               *)
(*   cmdQ  written on driver_chann2,      read on driver_chann1            *)
(*   resQ  written on driver_chann1,      read on driver_chann2            *)
(*   urlQ  written on interceptor_chann1, read on interceptor_chann2       *)
(*   verQ  written on interceptor_chann2, read on interceptor_chann1       *)
(***************************************************************************)
EXTENDS Integers, Sequences, FiniteSets, TLC

(***************************************************************************)
(* Bounds of the model.                                                    *)
(***************************************************************************)
MaxCalls == 2      \* commands the caller issues before it quits
MaxReq == 2        \* resource requests the page issues (interceptRequest calls)
MaxQuits == 2      \* calls of AppDriver.quit()
MaxCoord == 3      \* grab: x, y, w, h range over -MaxCoord..MaxCoord
MaxPage == 2       \* grab: page_width, page_height range over 0..MaxPage

(***************************************************************************)
(* multiprocessing start methods.  With "fork" the worker inherits every   *)
(* descriptor the controller held when Process.start() ran, so it holds    *)
(* its own copies of driver_chann2 and interceptor_chann2 until it exits;  *)
(* with "spawn" (and "forkserver") it receives only the two connections    *)
(* passed as arguments.  The source names no start method, so the          *)
(* platform's default decides.                                             *)
(***************************************************************************)
StartMethods == {"fork", "spawn"}

(***************************************************************************)
(* Urls are numbered; UrlText gives the characters of each.  0 is no url.  *)
(***************************************************************************)
AdsJs == <<"h","t","t","p",":","/","/","x","/","a","d","s",".","j","s">>
AppJs == <<"h","t","t","p",":","/","/","x","/","a","p","p",".","j","s">>
UrlText == <<AdsJs, AppJs>>

Urls == 1..Len(UrlText)

\* needle occurs in text as a contiguous subsequence (Python's `in` on str)
Contains(text, needle) ==
  \E i \in 1..(Len(text) - Len(needle) + 1) :
     SubSeq(text, i, i + Len(needle) - 1) = needle

(***************************************************************************)
(* The predicates a caller registers with set_url_request_interceptor.     *)
(*   "ads"    lambda url: 'ads' in url    (block if the url contains ads)  *)
(*   "raises" a predicate that raises on every url                         *)
(*   "none"   None: interception disabled                                  *)
(* PredResult is the value the call self.interceptor(url) produces in      *)
(* _Interceptor.run: "True", "False", or "raise" when it raises.           *)
(***************************************************************************)
UserPreds == {"ads", "raises", "none"}

default_interceptor(url) == "False"

PredResult(p, url) ==
  CASE p = "ads"     -> IF Contains(UrlText[url], <<"a","d","s">>) THEN "True" ELSE "False"
    [] p = "raises"  -> "raise"
    [] OTHER         -> default_interceptor(url)

VARIABLES
  startMethod,  \* the multiprocessing start method of this run
  \* ---- controller process ----
  ctl,          \* position of the caller's thread
  ctlReq,       \* the message the current _exec sent (or is about to send)
  ctlOut,       \* outcome of the caller's last finished call
  drvChann,     \* _InteractiveWebDriver._driver_chann: "open", "closed", "none"
  cIc2,         \* controller's interceptor_chann2 handle: "open", "closed"
  lst,          \* _Interceptor thread: "unstarted", "recv", "eval", "done"
  lstUrl,       \* the url the _Interceptor thread is evaluating
  iPred,        \* _Interceptor.interceptor
  nCalls,       \* commands issued so far
  nQuits,       \* AppDriver.quit() calls made so far
  pJoined,      \* times Process.join() returned
  \* ---- worker process ----
  wp,           \* worker process: "running", "exited"
  wDc1,         \* worker's driver_chann1 handle: "open", "closed"
  wIc1,         \* worker's interceptor_chann1 handle: "open", "closed"
  mw,           \* _MessageWorker thread: "test", "recv", "blocked", "emit", "done", "dead"
  mwAlive,      \* _MessageWorker.alive
  mwData,       \* _MessageWorker.data
  sigPending,   \* queued received() signals not yet delivered to the slot
  engStack,     \* Qt thread: frames entered from the event loop, innermost last
  appQuit,      \* QApplication.quit() was called: every event loop exits
  wIcpt,        \* engine-side interceptor: "unset", "sync", "none"
  nReq,         \* interceptRequest calls made so far
  \* ---- pipes ----
  cmdQ, resQ, urlQ, verQ,
  \* ---- history, read only by the properties ----
  hist,
  \* ---- one call of the API followed on its own (ApiSpec) ----
  fn

ctlVars == <<ctl, ctlReq, ctlOut, drvChann, nCalls, nQuits, pJoined>>
lstVars == <<lst, lstUrl>>
mwVars  == <<mw, mwData>>
engVars == <<engStack, appQuit, wIcpt, nReq>>
progVars == <<startMethod, ctl, ctlReq, ctlOut, drvChann, cIc2, lst, lstUrl, iPred,
              nCalls, nQuits, pJoined, wp, wDc1, wIc1, mw, mwAlive, mwData,
              sigPending, engStack, appQuit, wIcpt, nReq, cmdQ, resQ, urlQ, verQ,
              hist>>
vars == <<progVars, fn>>


(***************************************************************************)
(* Values.                                                                 *)
(***************************************************************************)
\* a message on the command pipe: (mem, data) of _exec, ('quit',) of quit
Msg(op, arg) == [op |-> op, arg |-> arg]
NoMsg == Msg("", <<>>)

\* an exception: the name of its class and its constructor arguments
Exc(kind, args) == [kind |-> kind, args |-> args]
NoExc == Exc("", <<>>)

\* a Result on the command pipe: (True, value) or (False, class name, args).
\* `for` is history: the method the result answers.
OkResult(op, v) == [ok |-> TRUE, val |-> v, kind |-> "", args |-> <<>>, for |-> op]
ErrResult(op, e) == [ok |-> FALSE, val |-> "", kind |-> e.kind, args |-> e.args, for |-> op]

\* outcome of a call of the caller
NoOutcome == [op |-> "", st |-> "none", val |-> "", exc |-> NoExc]
Returned(op, v) == [op |-> op, st |-> "returned", val |-> v, exc |-> NoExc]
Raised(op, e) == [op |-> op, st |-> "raised", val |-> "", exc |-> e]

\* what travels towards the _Interceptor thread: a url (a positive number),
\* the empty string '' of _InteractiveWebDriver.quit, or the None of the
\* worker's quit handling.  Both of the latter are falsy in `while url := recv()`.
EmptyStr == 0
NoneVal == -1
\* Falsy with every message taken for a stop message
Falsy_any(x) == TRUE

Falsy(x) == x <= 0

(***************************************************************************)
(* The operations of WebDriver the caller reaches through _exec.           *)
(* HasLoop: the operation waits in self._event_loop.exec().                *)
(* OpRaises: the driver's own exception the operation can end with.        *)
(***************************************************************************)
Ops == {"get", "download", "scroll", "contents_size"}

HasLoop(op) == op \in {"get", "download", "scroll"}

OpValue(op) == IF op = "contents_size" THEN "size" ELSE "None"

\* download raises self._result, a DownloadException; scroll runs
\* execute_script with raise_if_js_error left True, which raises JsException
OpRaises(op) ==
  CASE op = "download" -> {Exc("DownloadException", <<"interrupted">>)}
    [] op = "scroll"   -> {Exc("JsException", <<"err line 1">>)}
    [] OTHER           -> {}

\* a call with arguments of the wrong type fails before any event loop runs
ArgError == Exc("TypeError", <<"bad argument">>)

\* names bound in the builtins namespace among those that cross the pipe
Builtins == {"TypeError", "KeyError", "OSError", "EOFError", "BrokenPipeError",
             "AttributeError"}

(***************************************************************************)
(* _exec, lines 270-281: the exception raised for a (False, name, args)    *)
(* result.  type(ex).__name__ holds no dot, so the class is always looked  *)
(* up in the builtins mapping; a name it does not hold raises KeyError.    *)
(***************************************************************************)
Rebuild(name, args) ==
  IF name \in Builtins THEN Exc(name, args) ELSE Exc("KeyError", <<name>>)

(***************************************************************************)
(* Open ends of the pipes.  An end is open while some process holds a      *)
(* handle of it.  The controller's own driver_chann1 is dropped when       *)
(* AppDriver.__init__ returns; its interceptor_chann1 is kept (as          *)
(* _interceptor_chann_recv) and never closed.                              *)
(***************************************************************************)
Inherited == startMethod = "fork" /\ wp = "running"

Dc2Open == drvChann = "open" \/ Inherited
Dc1Open == wp = "running" /\ wDc1 = "open"
Ic2Open == cIc2 = "open" \/ Inherited
Ic1Open == TRUE

Top == engStack[Len(engStack)]
Pop == SubSeq(engStack, 1, Len(engStack) - 1)
SetTop(f) == [engStack EXCEPT ![Len(engStack)] = f]

\* a finished round trip of the interceptor pipe: the url the Qt thread
\* sent, the verdict it received (with the verdict's history) and whether
\* interceptRequest blocked the request
NoRoundTrip == [url |-> 0, v |-> "", for |-> 0, pred |-> "", raised |-> FALSE,
                blocked |-> FALSE]

Frame(kind, msg, pc, url) ==
  [kind |-> kind, msg |-> msg, pc |-> pc, exc |-> NoExc, val |-> "", url |-> url]

\* InLoop for a Qt thread that handles events wherever it is, also while
\* it waits for a verdict
InLoop_always == TRUE

\* the Qt thread is inside an event loop that delivers events: app.exec()
\* itself, or the self._event_loop.exec() of the innermost operation
InLoop == IF engStack = <<>> THEN TRUE ELSE Top.kind = "slot" /\ Top.pc = "nested"

\* history of the latest set_url_request_interceptor: whether it has
\* returned, and then whether it enabled, the predicate it stored, and how
\* many urls had been sent when it returned
NoSet == [done |-> FALSE, on |-> FALSE, pred |-> "", base |-> 0]

\* no call is followed on its own
NoFn == [kind |-> "none"]

ProgInit ==
  /\ startMethod \in StartMethods
  /\ ctl = "idle" /\ ctlReq = NoMsg /\ ctlOut = NoOutcome
  /\ drvChann = "open" /\ cIc2 = "open"
  /\ lst = "unstarted" /\ lstUrl = 0 /\ iPred = "default"
  /\ nCalls = 0 /\ nQuits = 0 /\ pJoined = 0
  /\ wp = "running" /\ wDc1 = "open" /\ wIc1 = "open"
  /\ mw = "test" /\ mwAlive = TRUE /\ mwData = NoMsg
  /\ sigPending = 0 /\ engStack = <<>> /\ appQuit = FALSE
  /\ wIcpt = "unset" /\ nReq = 0
  /\ cmdQ = <<>> /\ resQ = <<>> /\ urlQ = <<>> /\ verQ = <<>>
  /\ hist = [issued |-> <<>>, resolved |-> <<>>, last |-> NoRoundTrip, engExc |-> NoExc,
             escaped |-> FALSE, quitPending |-> FALSE,
             nDisp |-> 0, nDone |-> 0, nRes |-> 0, nErr |-> 0,
             sent |-> 0, answered |-> 0, base |-> 0,
             nThreads |-> 0, nSet |-> 0, qlog |-> <<>>,
             nRecv |-> 0, nEnter |-> 0, sigMsgs |-> <<>>, stale |-> FALSE,
             wlog |-> <<>>, nQuitRes |-> 0, quitBroken |-> FALSE, set |-> NoSet]

Init == ProgInit /\ fn = NoFn

(***************************************************************************)
(* The caller's thread: _InteractiveWebDriver.                             *)
(***************************************************************************)
\* ExecSend with the wait for the Result left out: the call returns at once
ExecSend_nowait(msg) ==
  /\ cmdQ' = Append(cmdQ, msg)
  /\ ctl' = "idle"
  /\ ctlOut' = NoOutcome
  /\ hist' = [hist EXCEPT !.sent = @ + 1, !.engExc = NoExc,
                           !.base = Len(hist.issued)]

\* _exec, lines 255-256: self._driver_chann.send((mem, data)); the caller
\* then waits in recv.  A send with no open peer end raises BrokenPipeError.
ExecSend(msg) ==
  IF Dc1Open
    THEN /\ cmdQ' = Append(cmdQ, msg)
         /\ ctl' = "wait"
         /\ ctlOut' = NoOutcome
         /\ hist' = [hist EXCEPT !.sent = @ + 1, !.engExc = NoExc,
                                  !.base = Len(hist.issued)]
    ELSE /\ ctl' = "idle"
         /\ ctlOut' = Raised(msg.op, Exc("BrokenPipeError", <<>>))
         /\ UNCHANGED <<cmdQ, hist>>

\* the session is in use: quit was not called yet
InUse == nQuits = 0 /\ drvChann = "open"

\* get, download, scroll, contents_size: return self._exec(name, args)
Call(op) ==
  /\ ctl = "idle" /\ InUse /\ nCalls < MaxCalls
  /\ nCalls' = nCalls + 1
  /\ ctlReq' = Msg(op, <<>>)
  /\ ExecSend(Msg(op, <<>>))
  /\ UNCHANGED <<fn, startMethod, drvChann, cIc2, lst, lstUrl, iPred, nQuits, pJoined,
                 wp, wDc1, wIc1, mw, mwAlive, mwData, sigPending, engStack,
                 appQuit, wIcpt, nReq, resQ, urlQ, verQ>>

\* SetInterceptor without the test of self._interceptor_thread: every call
\* creates and starts a thread
SetInterceptor_restart(p) ==
  /\ ctl = "idle" /\ InUse /\ nCalls < MaxCalls
  /\ nCalls' = nCalls + 1
  /\ lst' = IF lst = "unstarted" THEN "recv" ELSE lst
  /\ hist' = [hist EXCEPT !.nSet = @ + 1, !.nThreads = @ + 1, !.set = NoSet]
  /\ iPred' = IF p = "none" THEN "default" ELSE p
  /\ ctlReq' = Msg("interceptor", <<p # "none">>)
  /\ ctl' = "exec"
  /\ UNCHANGED <<fn, startMethod, ctlOut, drvChann, cIc2, lstUrl, nQuits, pJoined,
                 wp, wDc1, wIc1, mw, mwAlive, mwData, sigPending, engStack,
                 appQuit, wIcpt, nReq, cmdQ, resQ, urlQ, verQ>>

\* SetInterceptor that stores the predicate and sends the command without
\* starting the thread
SetInterceptor_nothread(p) ==
  /\ ctl = "idle" /\ InUse /\ nCalls < MaxCalls
  /\ nCalls' = nCalls + 1
  /\ hist' = [hist EXCEPT !.nSet = @ + 1, !.set = NoSet]
  /\ iPred' = IF p = "none" THEN "default" ELSE p
  /\ ctlReq' = Msg("interceptor", <<p # "none">>)
  /\ ctl' = "exec"
  /\ UNCHANGED <<fn, startMethod, ctlOut, drvChann, cIc2, lst, lstUrl, nQuits, pJoined,
                 wp, wDc1, wIc1, mw, mwAlive, mwData, sigPending, engStack,
                 appQuit, wIcpt, nReq, cmdQ, resQ, urlQ, verQ>>

\* set_url_request_interceptor, lines 200-204: create and start the thread
\* if self._interceptor_thread is not set yet, store the predicate (or the
\* default one for None).  hist.nThreads counts the threads created,
\* hist.nSet the calls.
SetInterceptor(p) ==
  /\ ctl = "idle" /\ InUse /\ nCalls < MaxCalls
  /\ nCalls' = nCalls + 1
  /\ lst' = IF lst = "unstarted" THEN "recv" ELSE lst
  /\ hist' = [hist EXCEPT !.nSet = @ + 1, !.set = NoSet,
                           !.nThreads = IF lst = "unstarted" THEN @ + 1 ELSE @]
  /\ iPred' = IF p = "none" THEN "default" ELSE p
  /\ ctlReq' = Msg("interceptor", <<p # "none">>)
  /\ ctl' = "exec"
  /\ UNCHANGED <<fn, startMethod, ctlOut, drvChann, cIc2, lstUrl, nQuits, pJoined,
                 wp, wDc1, wIc1, mw, mwAlive, mwData, sigPending, engStack,
                 appQuit, wIcpt, nReq, cmdQ, resQ, urlQ, verQ>>

\* set_url_request_interceptor, line 205: self._exec('interceptor', bool(interceptor))
SetInterceptorExec ==
  /\ ctl = "exec"
  /\ ExecSend(ctlReq)
  /\ UNCHANGED <<fn, startMethod, ctlReq, drvChann, cIc2, lst, lstUrl, iPred, nCalls,
                 nQuits, pJoined, wp, wDc1, wIc1, mw, mwAlive, mwData, sigPending,
                 engStack, appQuit, wIcpt, nReq, resQ, urlQ, verQ>>

\* _exec, lines 257-281: res = self._driver_chann.recv(); return res[1] or
\* raise the rebuilt exception.  recv raises EOFError once the queue is
\* empty and no process holds the peer end.
ExecOutcome(res) ==
  IF res.ok THEN Returned(ctlReq.op, res.val)
            ELSE Raised(ctlReq.op, Rebuild(res.kind, res.args))

ExecRecv ==
  /\ ctl = "wait"
  /\ IF resQ # <<>>
       THEN /\ resQ' = Tail(resQ)
            /\ ctlOut' = ExecOutcome(Head(resQ))
            /\ hist' = [hist EXCEPT !.answered = @ + 1,
                   !.set = IF ctlReq.op = "interceptor" /\ Head(resQ).ok
                             THEN [done |-> TRUE, on |-> ctlReq.arg[1], pred |-> iPred,
                                   base |-> Len(hist.issued)]
                             ELSE @]
       ELSE /\ ~Dc1Open
            /\ ctlOut' = Raised(ctlReq.op, Exc("EOFError", <<>>))
            /\ UNCHANGED <<resQ, hist>>
  /\ ctl' = "idle"
  /\ ctlReq' = NoMsg
  /\ UNCHANGED <<fn, startMethod, drvChann, cIc2, lst, lstUrl, iPred, nCalls,
                 nQuits, pJoined, wp, wDc1, wIc1, mw, mwAlive, mwData, sigPending,
                 engStack, appQuit, wIcpt, nReq, cmdQ, urlQ, verQ>>

(***************************************************************************)
(* AppDriver.quit (lines 316-318): self.driver.quit(); self.p.join(),      *)
(* with _InteractiveWebDriver.quit (lines 185-197) one statement a step.   *)
(* hist.qlog records the statements as the caller's thread completes them. *)
(***************************************************************************)
\* the Qt thread sent a url and waits for its verdict
RoundTripPending == engStack # <<>> /\ Top.kind = "icpt"

\* QuitStart without the try around the send: BrokenPipeError leaves quit
QuitStart_strict ==
  /\ ctl = "idle" /\ nQuits < MaxQuits
  /\ nQuits' = nQuits + 1
  /\ CASE drvChann = "none" ->
            /\ ctl' = "p_join"
            /\ UNCHANGED <<ctlOut, cmdQ, hist>>
       [] drvChann = "closed" ->
            /\ ctl' = "idle"
            /\ ctlOut' = Raised("quit", Exc("OSError", <<"handle is closed">>))
            /\ UNCHANGED <<cmdQ, hist>>
       [] drvChann = "open" /\ ~Dc1Open ->
            /\ ctl' = "idle"
            /\ ctlOut' = Raised("quit", Exc("BrokenPipeError", <<>>))
            /\ hist' = [hist EXCEPT !.quitBroken = TRUE]
            /\ UNCHANGED cmdQ
       [] OTHER ->
            /\ ctl' = "q_close"
            /\ ctlOut' = NoOutcome
            /\ cmdQ' = Append(cmdQ, Msg("quit", <<>>))
            /\ hist' = [hist EXCEPT !.quitPending = RoundTripPending, !.engExc = NoExc,
                                     !.qlog = Append(@, "send_quit")]
  /\ UNCHANGED <<fn, startMethod, ctlReq, drvChann, cIc2, lst, lstUrl, iPred, nCalls,
                 pJoined, wp, wDc1, wIc1, mw, mwAlive, mwData, sigPending,
                 engStack, appQuit, wIcpt, nReq, resQ, urlQ, verQ>>

\* lines 186-191: `if self._driver_chann:` is false only for None (a closed
\* Connection is an object like any other); send(('quit',)) tolerates
\* BrokenPipeError alone, and a closed handle raises OSError.
\* hist.quitBroken: the send raised BrokenPipeError.
QuitStart ==
  /\ ctl = "idle" /\ nQuits < MaxQuits
  /\ nQuits' = nQuits + 1
  /\ CASE drvChann = "none" ->
            /\ ctl' = "p_join"
            /\ UNCHANGED <<ctlOut, cmdQ, hist>>
       [] drvChann = "closed" ->
            /\ ctl' = "idle"
            /\ ctlOut' = Raised("quit", Exc("OSError", <<"handle is closed">>))
            /\ UNCHANGED <<cmdQ, hist>>
       [] OTHER ->
            /\ ctl' = "q_close"
            /\ ctlOut' = NoOutcome
            /\ cmdQ' = IF Dc1Open THEN Append(cmdQ, Msg("quit", <<>>)) ELSE cmdQ
            /\ hist' = [hist EXCEPT !.quitPending = RoundTripPending, !.engExc = NoExc,
                                     !.qlog = Append(@, "send_quit"),
                                     !.quitBroken = ~Dc1Open]
  /\ UNCHANGED <<fn, startMethod, ctlReq, drvChann, cIc2, lst, lstUrl, iPred, nCalls,
                 pJoined, wp, wDc1, wIc1, mw, mwAlive, mwData, sigPending,
                 engStack, appQuit, wIcpt, nReq, resQ, urlQ, verQ>>

\* line 192: self._driver_chann.close(); line 193: if self._interceptor_thread
QuitCloseDriverChann ==
  /\ ctl = "q_close"
  /\ drvChann' = "closed"
  /\ ctl' = IF lst # "unstarted" THEN "q_sentinel" ELSE "q_close_ic"
  /\ hist' = [hist EXCEPT !.qlog = Append(@, "close_driver_chann")]
  /\ UNCHANGED <<fn, startMethod, ctlReq, ctlOut, cIc2, lst, lstUrl, iPred, nCalls,
                 nQuits, pJoined, wp, wDc1, wIc1, mw, mwAlive, mwData, sigPending,
                 engStack, appQuit, wIcpt, nReq, cmdQ, resQ, urlQ, verQ>>

\* line 194: self._interceptor_chann_recv.send(''), outside any try
QuitSendSentinel ==
  /\ ctl = "q_sentinel"
  /\ IF Ic2Open
       THEN /\ urlQ' = Append(urlQ, EmptyStr)
            /\ ctl' = "q_join"
            /\ hist' = [hist EXCEPT !.qlog = Append(@, "send_sentinel")]
            /\ UNCHANGED ctlOut
       ELSE /\ ctl' = "idle"
            /\ ctlOut' = Raised("quit", Exc("BrokenPipeError", <<>>))
            /\ UNCHANGED <<urlQ, hist>>
  /\ UNCHANGED <<fn, startMethod, ctlReq, drvChann, cIc2, lst, lstUrl, iPred, nCalls,
                 nQuits, pJoined, wp, wDc1, wIc1, mw, mwAlive, mwData, sigPending,
                 engStack, appQuit, wIcpt, nReq, cmdQ, resQ, verQ>>

\* QuitJoinThread that does not wait for the thread to end
QuitJoinThread_nowait ==
  /\ ctl = "q_join"
  /\ ctl' = "q_close_ic"
  /\ hist' = [hist EXCEPT !.qlog = Append(@, "join_thread")]
  /\ UNCHANGED <<fn, startMethod, ctlReq, ctlOut, drvChann, cIc2, lst, lstUrl, iPred,
                 nCalls, nQuits, pJoined, wp, wDc1, wIc1, mw, mwAlive, mwData,
                 sigPending, engStack, appQuit, wIcpt, nReq, cmdQ, resQ, urlQ,
                 verQ>>

\* line 195: self._interceptor_thread.join() returns once run() has returned
QuitJoinThread ==
  /\ ctl = "q_join"
  /\ lst = "done"
  /\ ctl' = "q_close_ic"
  /\ hist' = [hist EXCEPT !.qlog = Append(@, "join_thread")]
  /\ UNCHANGED <<fn, startMethod, ctlReq, ctlOut, drvChann, cIc2, lst, lstUrl, iPred,
                 nCalls, nQuits, pJoined, wp, wDc1, wIc1, mw, mwAlive, mwData,
                 sigPending, engStack, appQuit, wIcpt, nReq, cmdQ, resQ, urlQ,
                 verQ>>

\* lines 196-197: self._interceptor_chann.close(); self._driver_chann = None
QuitCloseInterceptorChann ==
  /\ ctl = "q_close_ic"
  /\ cIc2' = "closed"
  /\ drvChann' = "none"
  /\ ctl' = "p_join"
  /\ hist' = [hist EXCEPT !.qlog = Append(@, "close_interceptor_chann")]
  /\ UNCHANGED <<fn, startMethod, ctlReq, ctlOut, lst, lstUrl, iPred, nCalls, nQuits,
                 pJoined, wp, wDc1, wIc1, mw, mwAlive, mwData, sigPending,
                 engStack, appQuit, wIcpt, nReq, cmdQ, resQ, urlQ, verQ>>

\* AppDriver.quit, line 318: self.p.join() returns once the worker has exited
ProcessJoin ==
  /\ ctl = "p_join"
  /\ wp = "exited"
  /\ pJoined' = pJoined + 1
  /\ ctl' = "idle"
  /\ ctlOut' = Returned("quit", "None")
  /\ hist' = [hist EXCEPT !.qlog = Append(@, "join_process")]
  /\ UNCHANGED <<fn, startMethod, ctlReq, drvChann, cIc2, lst, lstUrl, iPred, nCalls,
                 nQuits, wp, wDc1, wIc1, mw, mwAlive, mwData, sigPending,
                 engStack, appQuit, wIcpt, nReq, cmdQ, resQ, urlQ, verQ>>

(***************************************************************************)
(* The _Interceptor thread (lines 157-166).                                *)
(***************************************************************************)
\* InterceptorRecv with a loop that a falsy message does not end: the
\* message is dropped and the thread reads on
InterceptorRecv_stay ==
  /\ lst = "recv"
  /\ urlQ # <<>>
  /\ urlQ' = Tail(urlQ)
  /\ IF Falsy(Head(urlQ))
       THEN UNCHANGED <<lst, cIc2, lstUrl>>
       ELSE lst' = "eval" /\ lstUrl' = Head(urlQ) /\ UNCHANGED cIc2
  /\ UNCHANGED <<fn, startMethod, ctl, ctlReq, ctlOut, drvChann, iPred, nCalls, nQuits,
                 pJoined, wp, wDc1, wIc1, mw, mwAlive, mwData, sigPending,
                 engStack, appQuit, wIcpt, nReq, cmdQ, resQ, verQ, hist>>

\* `while url := chann.recv()`: a falsy message ends the loop and
\* chann.close() follows; anything else is evaluated
InterceptorRecv ==
  /\ lst = "recv"
  /\ urlQ # <<>>
  /\ urlQ' = Tail(urlQ)
  /\ IF Falsy(Head(urlQ))
       THEN lst' = "done" /\ cIc2' = "closed" /\ UNCHANGED lstUrl
       ELSE lst' = "eval" /\ lstUrl' = Head(urlQ) /\ UNCHANGED cIc2
  /\ UNCHANGED <<fn, startMethod, ctl, ctlReq, ctlOut, drvChann, iPred, nCalls, nQuits,
                 pJoined, wp, wDc1, wIc1, mw, mwAlive, mwData, sigPending,
                 engStack, appQuit, wIcpt, nReq, cmdQ, resQ, verQ, hist>>

\* InterceptorReply without the try/except around the predicate: an
\* exception of the predicate ends run() and no verdict is sent
InterceptorReply_dies ==
  /\ lst = "eval"
  /\ IF PredResult(iPred, lstUrl) = "raise"
       THEN lst' = "done" /\ UNCHANGED verQ
       ELSE /\ lst' = "recv"
            /\ verQ' = Append(verQ, [v |-> PredResult(iPred, lstUrl), for |-> lstUrl,
                                      pred |-> iPred, raised |-> FALSE])
  /\ lstUrl' = 0
  /\ UNCHANGED <<fn, startMethod, ctl, ctlReq, ctlOut, drvChann, cIc2, iPred, nCalls,
                 nQuits, pJoined, wp, wDc1, wIc1, mw, mwAlive, mwData, sigPending,
                 engStack, appQuit, wIcpt, nReq, cmdQ, resQ, urlQ, hist>>

\* r = self.interceptor(url), False when it raises; chann.send(r).
\* `for`, `pred` and `raised` are history: the url answered, the predicate
\* that was called and whether it raised.
Verdict(p, url) ==
  [v |-> IF PredResult(p, url) = "raise" THEN "False" ELSE PredResult(p, url),
   for |-> url, pred |-> p, raised |-> PredResult(p, url) = "raise"]

InterceptorReply ==
  /\ lst = "eval"
  /\ verQ' = Append(verQ, Verdict(iPred, lstUrl))
  /\ lst' = "recv"
  /\ lstUrl' = 0
  /\ UNCHANGED <<fn, startMethod, ctl, ctlReq, ctlOut, drvChann, cIc2, iPred, nCalls,
                 nQuits, pJoined, wp, wDc1, wIc1, mw, mwAlive, mwData, sigPending,
                 engStack, appQuit, wIcpt, nReq, cmdQ, resQ, urlQ, hist>>

(***************************************************************************)
(* The _MessageWorker thread (lines 87-92), in the worker process.         *)
(***************************************************************************)
\* `while self.alive:`
MessageWorkerTest ==
  /\ wp = "running" /\ mw = "test"
  /\ mw' = IF mwAlive THEN "recv" ELSE "done"
  /\ UNCHANGED <<fn, startMethod, ctl, ctlReq, ctlOut, drvChann, cIc2, lst, lstUrl,
                 iPred, nCalls, nQuits, pJoined, wp, wDc1, wIc1, mwAlive, mwData,
                 sigPending, engStack, appQuit, wIcpt, nReq, cmdQ, resQ, urlQ,
                 verQ, hist>>

\* `self.data = chann.recv()` is called.  On a handle the slot has closed it
\* raises OSError, and with nothing to read and no open peer end it raises
\* EOFError: either ends run() and the thread.  With nothing to read and
\* the peer end open the thread waits inside the read.
MessageWorkerRecv ==
  /\ wp = "running" /\ mw = "recv"
  /\ IF wDc1 = "open" /\ cmdQ # <<>>
       THEN /\ mwData' = Head(cmdQ)
            /\ cmdQ' = Tail(cmdQ)
            /\ mw' = "emit"
            /\ hist' = [hist EXCEPT !.nRecv = @ + 1]
       ELSE /\ mw' = IF wDc1 = "open" /\ Dc2Open THEN "blocked" ELSE "dead"
            /\ UNCHANGED <<mwData, cmdQ, hist>>
  /\ UNCHANGED <<fn, startMethod, ctl, ctlReq, ctlOut, drvChann, cIc2, lst, lstUrl,
                 iPred, nCalls, nQuits, pJoined, wp, wDc1, wIc1, mwAlive,
                 sigPending, engStack, appQuit, wIcpt, nReq, resQ, urlQ, verQ>>

\* the read the thread waits in returns: a message arrived, or every
\* handle of the peer end was closed (EOFError).  Closing the worker's own
\* handle (line 115) does not end a read that is under way.
MessageWorkerWake ==
  /\ wp = "running" /\ mw = "blocked"
  /\ IF cmdQ # <<>>
       THEN /\ mwData' = Head(cmdQ)
            /\ cmdQ' = Tail(cmdQ)
            /\ mw' = "emit"
            /\ hist' = [hist EXCEPT !.nRecv = @ + 1]
       ELSE /\ ~Dc2Open
            /\ mw' = "dead"
            /\ UNCHANGED <<mwData, cmdQ, hist>>
  /\ UNCHANGED <<fn, startMethod, ctl, ctlReq, ctlOut, drvChann, cIc2, lst, lstUrl,
                 iPred, nCalls, nQuits, pJoined, wp, wDc1, wIc1, mwAlive,
                 sigPending, engStack, appQuit, wIcpt, nReq, resQ, urlQ, verQ>>

\* MessageWorkerEmit that emits the signal twice for one message
MessageWorkerEmit_double ==
  /\ wp = "running" /\ mw = "emit"
  /\ sigPending' = sigPending + 2
  /\ hist' = [hist EXCEPT !.sigMsgs = Append(Append(@, mwData), mwData)]
  /\ mw' = "test"
  /\ UNCHANGED <<fn, startMethod, ctl, ctlReq, ctlOut, drvChann, cIc2, lst, lstUrl,
                 iPred, nCalls, nQuits, pJoined, wp, wDc1, wIc1, mwAlive, mwData,
                 engStack, appQuit, wIcpt, nReq, cmdQ, resQ, urlQ, verQ>>

\* `emit()`: the signal crosses threads, so the call of the slot is queued
\* on the Qt thread's event loop and emit returns at once.  hist.sigMsgs
\* remembers, for each queued signal, the message it was emitted for.
MessageWorkerEmit ==
  /\ wp = "running" /\ mw = "emit"
  /\ sigPending' = sigPending + 1
  /\ hist' = [hist EXCEPT !.sigMsgs = Append(@, mwData)]
  /\ mw' = "test"
  /\ UNCHANGED <<fn, startMethod, ctl, ctlReq, ctlOut, drvChann, cIc2, lst, lstUrl,
                 iPred, nCalls, nQuits, pJoined, wp, wDc1, wIc1, mwAlive, mwData,
                 engStack, appQuit, wIcpt, nReq, cmdQ, resQ, urlQ, verQ>>

(***************************************************************************)
(* The Qt thread: the slot _Synchronizer._sync_driver (lines 107-139).     *)
(* hist.wlog records the statements of the quit branch as they complete.   *)
(***************************************************************************)
\* the event loop delivers a queued received(): the slot starts and reads
\* method = self.driver_messager.data[0]
\* SlotEntry without the branch for 'quit': the name is looked up on the
\* driver like any other
SlotEntry_generic(msg) == Frame("slot", msg, "call", 0)

SlotEntry(msg) == Frame("slot", msg, IF msg.op = "quit" THEN "q_alive" ELSE "call", 0)

\* hist.stale: the slot read a message other than the one its signal was
\* emitted for
EnterHist ==
  [hist EXCEPT !.nEnter = @ + 1,
               !.nDisp = IF mwData.op = "quit" THEN @ ELSE @ + 1,
               !.stale = @ \/ mwData # Head(hist.sigMsgs),
               !.sigMsgs = Tail(@)]

\* SyncDriverEnter that leaves the signal queued: it is delivered again
SyncDriverEnter_redeliver ==
  /\ wp = "running" /\ InLoop /\ ~appQuit
  /\ sigPending > 0
  /\ engStack' = Append(engStack, SlotEntry(mwData))
  /\ hist' = [EnterHist EXCEPT !.sigMsgs = hist.sigMsgs]
  /\ UNCHANGED <<fn, startMethod, ctl, ctlReq, ctlOut, drvChann, cIc2, lst, lstUrl,
                 iPred, nCalls, nQuits, pJoined, wp, wDc1, wIc1, mw, mwAlive,
                 mwData, appQuit, wIcpt, nReq, cmdQ, resQ, urlQ, verQ, sigPending>>

SyncDriverEnter ==
  /\ wp = "running" /\ InLoop /\ ~appQuit
  /\ sigPending > 0
  /\ sigPending' = sigPending - 1
  /\ engStack' = Append(engStack, SlotEntry(mwData))
  /\ hist' = EnterHist
  /\ UNCHANGED <<fn, startMethod, ctl, ctlReq, ctlOut, drvChann, cIc2, lst, lstUrl,
                 iPred, nCalls, nQuits, pJoined, wp, wDc1, wIc1, mw, mwAlive,
                 mwData, appQuit, wIcpt, nReq, cmdQ, resQ, urlQ, verQ>>

InSlot(pc) == wp = "running" /\ engStack # <<>> /\ Top.kind = "slot" /\ Top.pc = pc

\* the frame after an exception ex was raised inside the try block
Caught(ex) == [Top EXCEPT !.pc = "except", !.exc = ex]

\* line 113: self.driver_messager.alive = False
SyncDriverQuitAlive ==
  /\ InSlot("q_alive")
  /\ mwAlive' = FALSE
  /\ engStack' = SetTop([Top EXCEPT !.pc = "q_send"])
  /\ hist' = [hist EXCEPT !.wlog = Append(@, "clear_alive")]
  /\ UNCHANGED <<fn, startMethod, ctl, ctlReq, ctlOut, drvChann, cIc2, lst, lstUrl,
                 iPred, nCalls, nQuits, pJoined, wp, wDc1, wIc1, mw, mwData,
                 sigPending, appQuit, wIcpt, nReq, cmdQ, resQ, urlQ, verQ>>

\* line 114: self.interceptor_chann.send(None)
SyncDriverQuitSend ==
  /\ InSlot("q_send")
  /\ IF Ic2Open
       THEN /\ urlQ' = Append(urlQ, NoneVal)
            /\ engStack' = SetTop([Top EXCEPT !.pc = "q_close_dc"])
            /\ hist' = [hist EXCEPT !.wlog = Append(@, "send_stop")]
       ELSE /\ engStack' = SetTop(Caught(Exc("BrokenPipeError", <<>>)))
            /\ UNCHANGED <<urlQ, hist>>
  /\ UNCHANGED <<fn, startMethod, ctl, ctlReq, ctlOut, drvChann, cIc2, lst, lstUrl,
                 iPred, nCalls, nQuits, pJoined, wp, wDc1, wIc1, mw, mwAlive,
                 mwData, sigPending, appQuit, wIcpt, nReq, cmdQ, resQ, verQ>>

\* line 115: self.driver_chann.close()
SyncDriverQuitCloseDriverChann ==
  /\ InSlot("q_close_dc")
  /\ wDc1' = "closed"
  /\ engStack' = SetTop([Top EXCEPT !.pc = "q_close_ic"])
  /\ hist' = [hist EXCEPT !.wlog = Append(@, "close_driver_chann")]
  /\ UNCHANGED <<fn, startMethod, ctl, ctlReq, ctlOut, drvChann, cIc2, lst, lstUrl,
                 iPred, nCalls, nQuits, pJoined, wp, wIc1, mw, mwAlive, mwData,
                 sigPending, appQuit, wIcpt, nReq, cmdQ, resQ, urlQ, verQ>>

\* line 116: self.interceptor_chann.close()
SyncDriverQuitCloseInterceptorChann ==
  /\ InSlot("q_close_ic")
  /\ wIc1' = "closed"
  /\ engStack' = SetTop([Top EXCEPT !.pc = "q_appquit"])
  /\ hist' = [hist EXCEPT !.wlog = Append(@, "close_interceptor_chann")]
  /\ UNCHANGED <<fn, startMethod, ctl, ctlReq, ctlOut, drvChann, cIc2, lst, lstUrl,
                 iPred, nCalls, nQuits, pJoined, wp, wDc1, mw, mwAlive, mwData,
                 sigPending, appQuit, wIcpt, nReq, cmdQ, resQ, urlQ, verQ>>

\* line 117: self.app.quit() (webdriver.AppDriver.quit, lines 107-109):
\* QApplication.quit() makes every event loop of the thread return
SyncDriverQuitApp ==
  /\ InSlot("q_appquit")
  /\ appQuit' = TRUE
  /\ engStack' = Pop
  /\ hist' = [hist EXCEPT !.wlog = Append(@, "quit_app")]
  /\ UNCHANGED <<fn, startMethod, ctl, ctlReq, ctlOut, drvChann, cIc2, lst, lstUrl,
                 iPred, nCalls, nQuits, pJoined, wp, wDc1, wIc1, mw, mwAlive,
                 mwData, sigPending, wIcpt, nReq, cmdQ, resQ, urlQ, verQ>>

\* SyncDriverCall that installs self._interceptor whatever the argument
SyncDriverCall_keep ==
  /\ InSlot("call")
  /\ IF Top.msg.op = "interceptor"
       THEN /\ wIcpt' = "sync"
            /\ engStack' = SetTop([Top EXCEPT !.pc = "reply", !.val = "None"])
            /\ UNCHANGED hist
       ELSE /\ UNCHANGED wIcpt
            /\ \E fails \in BOOLEAN :
                 IF fails
                   THEN /\ engStack' = SetTop(Caught(ArgError))
                        /\ hist' = [hist EXCEPT !.engExc = ArgError]
                   ELSE /\ engStack' = SetTop([Top EXCEPT
                               !.pc = IF HasLoop(Top.msg.op) THEN "nested" ELSE "reply",
                               !.val = OpValue(Top.msg.op)])
                        /\ UNCHANGED hist
  /\ UNCHANGED <<fn, startMethod, ctl, ctlReq, ctlOut, drvChann, cIc2, lst, lstUrl,
                 iPred, nCalls, nQuits, pJoined, wp, wDc1, wIc1, mw, mwAlive,
                 mwData, sigPending, appQuit, nReq, cmdQ, resQ, urlQ, verQ>>

\* lines 118-136, up to the call of the driver's method.
\* 'interceptor': self.driver.set_url_request_interceptor(self._interceptor
\* or None) (webdriver.py lines 206-213) installs the wrapper in the profile
\* with that function.  Any other method is called by name; it may fail at
\* once, wait in the driver's event loop, or return.
SyncDriverCall ==
  /\ InSlot("call")
  /\ IF Top.msg.op = "interceptor"
       THEN /\ wIcpt' = IF Top.msg.arg[1] THEN "sync" ELSE "none"
            /\ engStack' = SetTop([Top EXCEPT !.pc = "reply", !.val = "None"])
            /\ UNCHANGED hist
       ELSE /\ UNCHANGED wIcpt
            /\ \E fails \in BOOLEAN :
                 IF fails
                   THEN /\ engStack' = SetTop(Caught(ArgError))
                        /\ hist' = [hist EXCEPT !.engExc = ArgError]
                   ELSE /\ engStack' = SetTop([Top EXCEPT
                               !.pc = IF HasLoop(Top.msg.op) THEN "nested" ELSE "reply",
                               !.val = OpValue(Top.msg.op)])
                        /\ UNCHANGED hist
  /\ UNCHANGED <<fn, startMethod, ctl, ctlReq, ctlOut, drvChann, cIc2, lst, lstUrl,
                 iPred, nCalls, nQuits, pJoined, wp, wDc1, wIc1, mw, mwAlive,
                 mwData, sigPending, appQuit, nReq, cmdQ, resQ, urlQ, verQ>>

\* self._event_loop.exec() returns (webdriver.py lines 220, 228, 252, 275):
\* the awaited event arrived, or the application is quitting.  The
\* operation then returns or raises its own exception.
EventLoopExit ==
  /\ InSlot("nested")
  /\ \E ex \in {NoExc} \cup OpRaises(Top.msg.op) :
       IF ex = NoExc
         THEN /\ engStack' = SetTop([Top EXCEPT !.pc = "reply"])
              /\ UNCHANGED hist
         ELSE /\ engStack' = SetTop(Caught(ex))
              /\ hist' = [hist EXCEPT !.engExc = ex]
  /\ UNCHANGED <<fn, startMethod, ctl, ctlReq, ctlOut, drvChann, cIc2, lst, lstUrl,
                 iPred, nCalls, nQuits, pJoined, wp, wDc1, wIc1, mw, mwAlive,
                 mwData, sigPending, appQuit, wIcpt, nReq, cmdQ, resQ, urlQ, verQ>>

\* a send on driver_chann1 goes through: the handle is open and some
\* process holds driver_chann2
CanReply == wDc1 = "open" /\ Dc2Open

SendFailure == IF wDc1 = "closed" THEN Exc("OSError", <<"handle is closed">>)
                                  ELSE Exc("BrokenPipeError", <<>>)

\* lines 123, 132, 136: self.driver_chann.send((True, result)), inside the try
SyncDriverReply ==
  /\ InSlot("reply")
  /\ IF CanReply
       THEN /\ resQ' = Append(resQ, OkResult(Top.msg.op, Top.val))
            /\ engStack' = Pop
            /\ hist' = [hist EXCEPT !.nRes = @ + 1, !.nDone = @ + 1,
                          !.nQuitRes = IF Top.msg.op = "quit" THEN @ + 1 ELSE @]
       ELSE /\ engStack' = SetTop(Caught(SendFailure))
            /\ UNCHANGED <<resQ, hist>>
  /\ UNCHANGED <<fn, startMethod, ctl, ctlReq, ctlOut, drvChann, cIc2, lst, lstUrl,
                 iPred, nCalls, nQuits, pJoined, wp, wDc1, wIc1, mw, mwAlive,
                 mwData, sigPending, appQuit, wIcpt, nReq, cmdQ, urlQ, verQ>>

\* SyncDriverExcept with the error treated as fatal for the session: the
\* descriptor is sent and the application is told to quit
SyncDriverExcept_fatal ==
  /\ InSlot("except")
  /\ engStack' = Pop
  /\ appQuit' = TRUE
  /\ IF CanReply
       THEN /\ resQ' = Append(resQ, ErrResult(Top.msg.op, Top.exc))
            /\ hist' = [hist EXCEPT !.nRes = @ + 1, !.nErr = @ + 1,
                          !.nDone = IF Top.msg.op = "quit" THEN @ ELSE @ + 1,
                          !.nQuitRes = IF Top.msg.op = "quit" THEN @ + 1 ELSE @]
       ELSE /\ hist' = [hist EXCEPT !.escaped = TRUE,
                          !.nDone = IF Top.msg.op = "quit" THEN @ ELSE @ + 1]
            /\ UNCHANGED resQ
  /\ UNCHANGED <<fn, startMethod, ctl, ctlReq, ctlOut, drvChann, cIc2, lst, lstUrl,
                 iPred, nCalls, nQuits, pJoined, wp, wDc1, wIc1, mw, mwAlive,
                 mwData, sigPending, wIcpt, nReq, cmdQ, urlQ, verQ>>

\* lines 137-139: except Exception as ex: traceback.print_exc();
\* self.driver_chann.send((False, type(ex).__name__, ex.args)).  A send that
\* fails here raises out of the slot.
SyncDriverExcept ==
  /\ InSlot("except")
  /\ engStack' = Pop
  /\ IF CanReply
       THEN /\ resQ' = Append(resQ, ErrResult(Top.msg.op, Top.exc))
            /\ hist' = [hist EXCEPT !.nRes = @ + 1, !.nErr = @ + 1,
                          !.nDone = IF Top.msg.op = "quit" THEN @ ELSE @ + 1,
                          !.nQuitRes = IF Top.msg.op = "quit" THEN @ + 1 ELSE @]
       ELSE /\ hist' = [hist EXCEPT !.escaped = TRUE,
                          !.nDone = IF Top.msg.op = "quit" THEN @ ELSE @ + 1]
            /\ UNCHANGED resQ
  /\ UNCHANGED <<fn, startMethod, ctl, ctlReq, ctlOut, drvChann, cIc2, lst, lstUrl,
                 iPred, nCalls, nQuits, pJoined, wp, wDc1, wIc1, mw, mwAlive,
                 mwData, sigPending, appQuit, wIcpt, nReq, cmdQ, urlQ, verQ>>

(***************************************************************************)
(* The Qt thread: _UrlRequestInterceptor.interceptRequest (webdriver.py    *)
(* lines 34-40) calling _Synchronizer._interceptor (lines 141-144).        *)
(***************************************************************************)
\* Blocked with the test inverted
Blocked_inverted(v) == v # "True"

\* `if blocked: info.block(True)`
Blocked(v) == v = "True"

\* InterceptRequest that does not wait for the verdict: the url is sent and
\* the Qt thread goes back to its event loop
InterceptRequest_async(url) ==
  /\ wp = "running" /\ InLoop /\ ~appQuit
  /\ wIcpt # "unset"
  /\ nReq < MaxReq
  /\ nReq' = nReq + 1
  /\ IF wIcpt = "sync" /\ wIc1 = "open" /\ Ic2Open
       THEN /\ urlQ' = Append(urlQ, url)
            /\ hist' = [hist EXCEPT !.issued = Append(@, url)]
       ELSE UNCHANGED <<urlQ, hist>>
  /\ UNCHANGED <<fn, startMethod, ctl, ctlReq, ctlOut, drvChann, cIc2, lst, lstUrl,
                 iPred, nCalls, nQuits, pJoined, wp, wDc1, wIc1, mw, mwAlive,
                 mwData, sigPending, engStack, appQuit, wIcpt, cmdQ, resQ, verQ>>

\* The page requests url while an event loop runs.  With the function
\* installed, _interceptor sends the url and waits in recv; with None
\* installed, or a send that fails, the call raises and the request goes on.
InterceptRequest(url) ==
  /\ wp = "running" /\ InLoop /\ ~appQuit
  /\ wIcpt # "unset"
  /\ nReq < MaxReq
  /\ nReq' = nReq + 1
  /\ IF wIcpt = "sync" /\ wIc1 = "open" /\ Ic2Open
       THEN /\ urlQ' = Append(urlQ, url)
            /\ engStack' = Append(engStack, Frame("icpt", NoMsg, "recv", url))
            /\ hist' = [hist EXCEPT !.issued = Append(@, url)]
       ELSE UNCHANGED <<urlQ, engStack, hist>>
  /\ UNCHANGED <<fn, startMethod, ctl, ctlReq, ctlOut, drvChann, cIc2, lst, lstUrl,
                 iPred, nCalls, nQuits, pJoined, wp, wDc1, wIc1, mw, mwAlive,
                 mwData, sigPending, appQuit, wIcpt, cmdQ, resQ, verQ>>

\* `return self.interceptor_chann.recv()`, then interceptRequest blocks the
\* request or not.  recv raises EOFError once no process holds
\* interceptor_chann2; the request then goes on.
Resolved(url, ver) ==
  [url |-> url, v |-> ver.v, for |-> ver.for, pred |-> ver.pred,
   raised |-> ver.raised, blocked |-> Blocked(ver.v)]

InterceptorVerdict ==
  /\ wp = "running" /\ RoundTripPending
  /\ engStack' = Pop
  /\ IF verQ # <<>>
       THEN /\ verQ' = Tail(verQ)
            /\ hist' = [hist EXCEPT !.resolved = Append(@, Head(verQ).for),
                                     !.last = Resolved(Top.url, Head(verQ))]
       ELSE /\ ~Ic2Open
            /\ UNCHANGED <<verQ, hist>>
  /\ UNCHANGED <<fn, startMethod, ctl, ctlReq, ctlOut, drvChann, cIc2, lst, lstUrl,
                 iPred, nCalls, nQuits, pJoined, wp, wDc1, wIc1, mw, mwAlive,
                 mwData, sigPending, appQuit, wIcpt, nReq, cmdQ, resQ, urlQ>>

\* _webdriver_process, line 291: app.exec() returns and the process ends;
\* its threads and its descriptors go with it
WorkerExit ==
  /\ wp = "running" /\ engStack = <<>> /\ appQuit
  /\ wp' = "exited"
  /\ UNCHANGED <<fn, startMethod, ctl, ctlReq, ctlOut, drvChann, cIc2, lst, lstUrl,
                 iPred, nCalls, nQuits, pJoined, wDc1, wIc1, mw, mwAlive, mwData,
                 sigPending, engStack, appQuit, wIcpt, nReq, cmdQ, resQ, urlQ,
                 verQ, hist>>

Next ==
  \/ \E op \in Ops : Call(op)
  \/ \E p \in UserPreds : SetInterceptor(p)
  \/ SetInterceptorExec
  \/ ExecRecv
  \/ QuitStart
  \/ QuitCloseDriverChann
  \/ QuitSendSentinel
  \/ QuitJoinThread
  \/ QuitCloseInterceptorChann
  \/ ProcessJoin
  \/ InterceptorRecv
  \/ InterceptorReply
  \/ MessageWorkerTest
  \/ MessageWorkerRecv
  \/ MessageWorkerWake
  \/ MessageWorkerEmit
  \/ SyncDriverEnter
  \/ SyncDriverQuitAlive
  \/ SyncDriverQuitSend
  \/ SyncDriverQuitCloseDriverChann
  \/ SyncDriverQuitCloseInterceptorChann
  \/ SyncDriverQuitApp
  \/ SyncDriverCall
  \/ EventLoopExit
  \/ SyncDriverReply
  \/ SyncDriverExcept
  \/ \E url \in Urls : InterceptRequest(url)
  \/ InterceptorVerdict
  \/ WorkerExit

Spec == Init /\ [][Next]_vars

(***************************************************************************)
(* The session with a worker process that can end at any moment without    *)
(* having been told to (killed, or crashed in the engine).                 *)
(***************************************************************************)
\* the worker process ends where it stands; its threads and its
\* descriptors go with it
WorkerKilled ==
  /\ wp = "running"
  /\ wp' = "exited"
  /\ UNCHANGED <<fn, startMethod, ctl, ctlReq, ctlOut, drvChann, cIc2, lst, lstUrl,
                 iPred, nCalls, nQuits, pJoined, wDc1, wIc1, mw, mwAlive, mwData,
                 sigPending, engStack, appQuit, wIcpt, nReq, cmdQ, resQ, urlQ,
                 verQ, hist>>

CrashNext == Next \/ WorkerKilled

CrashSpec == Init /\ [][CrashNext]_vars

(***************************************************************************)
(* One call of the API followed from its arguments to its outcome, with    *)
(* the session otherwise at rest: grab through the controller, and the     *)
(* same call made on WebDriver directly and through _InteractiveWebDriver. *)
(***************************************************************************)
Min(a, b) == IF a < b THEN a ELSE b
Max(a, b) == IF a > b THEN a ELSE b

Coords == (-MaxCoord)..MaxCoord
PageSizes == 0..MaxPage

\* a QImage: the null image QImage(), or an image of width x height pixels
NullImage == [null |-> TRUE, width |-> 0, height |-> 0]
Image(w, h) == [null |-> FALSE, width |-> w, height |-> h]

\* ClampW with a negative w treated like any other width
ClampW_nofull(x, w, page_width) ==
  Min(Min(w, page_width - x) + Min(0, x), page_width)

\* WebDriver.grab, lines 314 and 316:
\*   w = page_width if w < 0 else min(w, page_width-x)
\*   w = min(w + min(0, x), page_width)
ClampW(x, w, page_width) ==
  Min((IF w < 0 THEN page_width ELSE Min(w, page_width - x)) + Min(0, x), page_width)

\* WebDriver.grab, lines 315 and 317:
\*   h = page_height - y if h < 0 else min(h, page_height-y)
\*   h = min(h + min(0, y), page_height)
ClampH(y, h, page_height) ==
  Min((IF h < 0 THEN page_height - y ELSE Min(h, page_height - y)) + Min(0, y),
      page_height)

\* lines 314-319: the rectangle after the shrinking
GrabRect(x, y, w, h, page_width, page_height) ==
  [x |-> Max(0, x), y |-> Max(0, y),
   w |-> ClampW(x, w, page_width), h |-> ClampH(y, h, page_height)]

\* line 321: if x >= page_width or y >= page_height or w <= 0 or h <= 0
GrabEmpty(r, page_width, page_height) ==
  r.x >= page_width \/ r.y >= page_height \/ r.w <= 0 \/ r.h <= 0

\* lines 321-378: QImage() for an empty rectangle, else the capture of rect
GrabImage(r, page_width, page_height) ==
  IF GrabEmpty(r, page_width, page_height) THEN NullImage ELSE Image(r.w, r.h)

\* _sync_driver, lines 125-132 and 137-139: the Result for an image.
\* constBits() of a null QImage is None, so .tobytes() raises
\* AttributeError inside the try; otherwise the tuple (bits, width, height,
\* bytesPerLine, format) of a 32-bit image is sent.
GrabResult(img) ==
  IF img.null
    THEN ErrResult("grab", Exc("AttributeError", <<"NoneType has no attribute tobytes">>))
    ELSE OkResult("grab", [len |-> 4 * img.width * img.height, width |-> img.width,
                           height |-> img.height, bytesPerLine |-> 4 * img.width])

\* _InteractiveWebDriver.grab, lines 228-232, with _exec lines 266-281
GrabOutcome(res) ==
  IF res.ok THEN Returned("grab", Image(res.val.width, res.val.height))
            ELSE Raised("grab", Rebuild(res.kind, res.args))

\* what runJavaScript hands to _event_result: '' when the script failed,
\* '[]' for no value, else the JSON text of [value]
ScriptResults == {"", "[]", "[1]"}

\* _WebPage.js_error after the script ran: None, or the text of the last
\* console message of level error
JsErrors == {"None", "err line 1"}

\* WebDriver.execute_script, lines 281-289
ExecuteScript(result, js_error, raise_if_js_error) ==
  IF result = ""
    THEN IF raise_if_js_error
           THEN Raised("execute_script", Exc("JsException", <<js_error>>))
           ELSE Returned("execute_script", "None")
    ELSE Returned("execute_script", IF result = "[]" THEN "None" ELSE "1")

\* WebDriver.get_last_js_error, line 293: self._last_js_error or ''
GetLastJsError(js_error) == IF js_error = "None" THEN "" ELSE js_error

\* _InteractiveWebDriver.execute_script, lines 217-222: the script is run
\* with raise_if_js_error False, then get_last_js_error decides
InteractiveExecuteScript(result, js_error, raise_if_js_error) ==
  IF raise_if_js_error /\ GetLastJsError(js_error) # ""
    THEN Raised("execute_script", Exc("JsException", <<GetLastJsError(js_error)>>))
    ELSE ExecuteScript(result, js_error, FALSE)

\* the public methods of WebDriver with the defaults of their parameters
\* (webdriver.py lines 185-436)
WebDriverApi ==
  [wait_quit |-> <<>>, quit |-> <<>>, set_url_request_interceptor |-> <<>>,
   get |-> <<>>, sleep_ms |-> <<>>, save_page |-> <<"format=2">>,
   download |-> <<"filename=''", "with_progression=False">>,
   execute_script |-> <<"raise_if_js_error=True">>, get_last_js_error |-> <<>>,
   grab |-> <<"x=0", "y=0", "w=-1", "h=-1", "frozen_after_ms=0", "max_iter=10">>,
   take_screenshot |-> <<"format=None", "quality=-1", "x=0", "y=0", "w=-1", "h=-1",
                         "frozen_after_ms=0", "max_iter=10">>,
   resize |-> <<"width=-1", "height=-1">>, contents_size |-> <<>>, scroll |-> <<>>,
   click |-> <<"delay_ms=100">>, enable_devtools |-> <<"enable=True">>]

\* the public methods of _InteractiveWebDriver (iwebdriver.py lines 185-249)
InteractiveApi ==
  [quit |-> <<>>, set_url_request_interceptor |-> <<>>,
   get |-> <<>>, sleep_ms |-> <<>>,
   download |-> <<"filename=None", "with_progression=True">>,
   execute_script |-> <<"raise_if_js_error=True">>, get_last_js_error |-> <<>>,
   grab |-> <<"x=0", "y=0", "w=-1", "h=-1", "frozen_after_ms=0", "max_iter=10">>,
   take_screenshot |-> <<"format=None", "quality=-1", "x=0", "y=0", "w=-1", "h=-1",
                         "frozen_after_ms=0", "max_iter=10">>,
   resize |-> <<"width=-1", "height=-1">>, contents_size |-> <<>>, scroll |-> <<>>,
   enable_devtools |-> <<"enable=True">>]

\* the signature a caller finds for the method named op
Signature(api, op) == IF op \in DOMAIN api THEN api[op] ELSE <<"no such method">>

GrabCalls ==
  [kind : {"grab"}, pc : {"args"}, x : Coords, y : Coords, w : Coords, h : Coords,
   page_width : PageSizes, page_height : PageSizes,
   rect : {GrabRect(0, 0, 0, 0, 0, 0)}, img : {NullImage},
   res : {OkResult("", "")}, out : {NoOutcome}]

ScriptCalls ==
  [kind : {"script"}, result : ScriptResults, js_error : JsErrors,
   raise_if_js_error : BOOLEAN, direct : {NoOutcome}, interactive : {NoOutcome}]

SignatureLookups ==
  [kind : {"signature"}, op : DOMAIN WebDriverApi, interactive : {<<"not looked up">>}]

\* execute_script on _InteractiveWebDriver followed command by command:
\* cmds are the messages _exec has sent, nres the Results it has received,
\* last_js_error is WebDriver._last_js_error in the worker
NoResult == OkResult("", "")

ScriptSessions ==
  [kind : {"iscript"}, pc : {"start"}, result : ScriptResults, js_error : JsErrors,
   raise_if_js_error : BOOLEAN, cmds : {<<>>}, nres : {0}, last_js_error : {"unset"},
   res1 : {NoResult}, res2 : {NoResult}, out : {NoOutcome}]

ApiInit ==
  ProgInit /\ fn \in GrabCalls \cup ScriptCalls \cup SignatureLookups \cup ScriptSessions

\* the slot calls getattr(self.driver, 'grab')(*args): WebDriver.grab
WebDriverGrab ==
  /\ fn.kind = "grab" /\ fn.pc = "args"
  /\ fn' = [fn EXCEPT
        !.pc = "image",
        !.rect = GrabRect(fn.x, fn.y, fn.w, fn.h, fn.page_width, fn.page_height),
        !.img = GrabImage(GrabRect(fn.x, fn.y, fn.w, fn.h, fn.page_width, fn.page_height),
                          fn.page_width, fn.page_height)]
  /\ UNCHANGED progVars

\* the slot turns the image into a Result
SyncDriverGrab ==
  /\ fn.kind = "grab" /\ fn.pc = "image"
  /\ fn' = [fn EXCEPT !.pc = "result", !.res = GrabResult(fn.img)]
  /\ UNCHANGED progVars

\* the caller's grab returns the rebuilt image or raises
InteractiveGrab ==
  /\ fn.kind = "grab" /\ fn.pc = "result"
  /\ fn' = [fn EXCEPT !.pc = "done", !.out = GrabOutcome(fn.res)]
  /\ UNCHANGED progVars

\* execute_script called on WebDriver
DirectScript ==
  /\ fn.kind = "script" /\ fn.direct = NoOutcome
  /\ fn' = [fn EXCEPT !.direct = ExecuteScript(fn.result, fn.js_error, fn.raise_if_js_error)]
  /\ UNCHANGED progVars

\* execute_script called on _InteractiveWebDriver, the Engine in the same state
InteractiveScript ==
  /\ fn.kind = "script" /\ fn.interactive = NoOutcome
  /\ fn' = [fn EXCEPT !.interactive =
               InteractiveExecuteScript(fn.result, fn.js_error, fn.raise_if_js_error)]
  /\ UNCHANGED progVars

\* the method of WebDriver named fn.op is looked up on _InteractiveWebDriver
InteractiveLookup ==
  /\ fn.kind = "signature" /\ fn.interactive = <<"not looked up">>
  /\ fn' = [fn EXCEPT !.interactive = Signature(InteractiveApi, fn.op)]
  /\ UNCHANGED progVars

\* line 217: self._exec('execute_script', (script, False,)) sends its message
InteractiveScriptSend ==
  /\ fn.kind = "iscript" /\ fn.pc = "start"
  /\ fn' = [fn EXCEPT !.pc = "exec1",
                       !.cmds = Append(@, Msg("execute_script", <<FALSE>>))]
  /\ UNCHANGED progVars

\* the slot calls WebDriver.execute_script with the arguments of the
\* message (lines 134-136; webdriver.py lines 272-289): _last_js_error is
\* stored, the outcome becomes the Result
WebDriverExecuteScript ==
  /\ fn.kind = "iscript" /\ fn.pc = "exec1"
  /\ LET out == ExecuteScript(fn.result, fn.js_error, fn.cmds[1].arg[1])
     IN fn' = [fn EXCEPT
                 !.pc = "recv1",
                 !.last_js_error = fn.js_error,
                 !.res1 = IF out.st = "returned"
                            THEN OkResult("execute_script", out.val)
                            ELSE ErrResult("execute_script", out.exc)]
  /\ UNCHANGED progVars

\* InteractiveScriptRecv that asks for the last error whatever the flag
InteractiveScriptRecv_eager ==
  /\ fn.kind = "iscript" /\ fn.pc = "recv1"
  /\ IF ~fn.res1.ok
       THEN fn' = [fn EXCEPT !.pc = "done", !.nres = @ + 1,
                     !.out = Raised("execute_script", Rebuild(fn.res1.kind, fn.res1.args))]
       ELSE fn' = [fn EXCEPT !.pc = "exec2", !.nres = @ + 1,
                     !.cmds = Append(@, Msg("get_last_js_error", <<>>))]
  /\ UNCHANGED progVars

\* lines 217-219 and 224-225: _exec receives the first Result and returns
\* its value or raises; `if raise_if_js_error:` then calls
\* get_last_js_error, whose _exec sends the second message; otherwise
\* `return res`
InteractiveScriptRecv ==
  /\ fn.kind = "iscript" /\ fn.pc = "recv1"
  /\ IF ~fn.res1.ok
       THEN fn' = [fn EXCEPT !.pc = "done", !.nres = @ + 1,
                     !.out = Raised("execute_script", Rebuild(fn.res1.kind, fn.res1.args))]
       ELSE IF fn.raise_if_js_error
              THEN fn' = [fn EXCEPT !.pc = "exec2", !.nres = @ + 1,
                            !.cmds = Append(@, Msg("get_last_js_error", <<>>))]
              ELSE fn' = [fn EXCEPT !.pc = "done", !.nres = @ + 1,
                            !.out = Returned("execute_script", fn.res1.val)]
  /\ UNCHANGED progVars

\* the slot calls WebDriver.get_last_js_error (webdriver.py line 293)
WebDriverGetLastJsError ==
  /\ fn.kind = "iscript" /\ fn.pc = "exec2"
  /\ fn' = [fn EXCEPT !.pc = "recv2",
                       !.res2 = OkResult("get_last_js_error",
                                         GetLastJsError(fn.last_js_error))]
  /\ UNCHANGED progVars

\* lines 219-222: error = the second Result's value; if error: raise
\* webdriver.JsException(error); return res
InteractiveScriptDecide ==
  /\ fn.kind = "iscript" /\ fn.pc = "recv2"
  /\ fn' = [fn EXCEPT !.pc = "done", !.nres = @ + 1,
               !.out = IF fn.res2.val # ""
                         THEN Raised("execute_script", Exc("JsException", <<fn.res2.val>>))
                         ELSE Returned("execute_script", fn.res1.val)]
  /\ UNCHANGED progVars

ApiNext ==
  \/ InteractiveScriptSend
  \/ WebDriverExecuteScript
  \/ InteractiveScriptRecv
  \/ WebDriverGetLastJsError
  \/ InteractiveScriptDecide
  \/ WebDriverGrab
  \/ SyncDriverGrab
  \/ InteractiveGrab
  \/ DirectScript
  \/ InteractiveScript
  \/ InteractiveLookup

ApiSpec == ApiInit /\ [][ApiNext]_vars

(***************************************************************************)
(* Properties.                                                             *)
(***************************************************************************)
IsPrefix(a, b) == Len(a) <= Len(b) /\ SubSeq(b, 1, Len(a)) = a

\* the commands (all messages but quit) in a queue of the command pipe
Commands(q) == {i \in 1..Len(q) : q[i].op # "quit"}

\* C1: the Result of call N is received before the request of call N+1 is
\* sent: at every moment at most one request sent by _exec is unanswered,
\* and the command pipe never holds two commands or two Results.
C1_NoPipelining ==
  /\ hist.sent - hist.answered \in {0, 1}
  /\ Cardinality(Commands(cmdQ)) + Len(resQ) <= 1
  /\ (ctl = "idle" /\ nQuits = 0) => hist.sent = hist.answered

\* the second call was sent, after the Result of the first was received
C1_Witness == hist.sent = 2 /\ hist.answered = 1 /\ ctl = "wait"

\* the steps of the program itself: every action but the caller's choice
\* of a next call and the page's choice to request a resource
SystemNext ==
  \/ SetInterceptorExec \/ ExecRecv
  \/ QuitCloseDriverChann \/ QuitSendSentinel \/ QuitJoinThread
  \/ QuitCloseInterceptorChann \/ ProcessJoin
  \/ InterceptorRecv \/ InterceptorReply
  \/ MessageWorkerTest \/ MessageWorkerRecv \/ MessageWorkerWake \/ MessageWorkerEmit
  \/ SyncDriverEnter \/ SyncDriverQuitAlive \/ SyncDriverQuitSend
  \/ SyncDriverQuitCloseDriverChann \/ SyncDriverQuitCloseInterceptorChann
  \/ SyncDriverQuitApp \/ SyncDriverCall \/ EventLoopExit \/ SyncDriverReply
  \/ SyncDriverExcept \/ InterceptorVerdict \/ WorkerExit

\* the caller is inside AppDriver.quit()
QuitPcs == {"q_close", "q_sentinel", "q_join", "q_close_ic", "p_join"}

SlotRunning == \E i \in 1..Len(engStack) : engStack[i].kind = "slot"

\* C2: while a get is outstanding, the round trips of the interceptor pipe
\* are answered in the order their urls were sent, at most one of them is
\* unresolved (the one the Qt thread waits for), the program can always
\* take a step, and the Result that reaches the caller is the one of get.
C2_RoundTripsInOrder ==
  (ctl = "wait" /\ ctlReq.op = "get") =>
     /\ IsPrefix(hist.resolved, hist.issued)
     /\ Len(hist.issued) - Len(hist.resolved) = (IF RoundTripPending THEN 1 ELSE 0)
     /\ ENABLED SystemNext
     /\ resQ # <<>> => (Head(resQ).for = "get" /\ ~SlotRunning)

\* two round trips, ads.js then app.js, were sent and resolved while the get
\* was outstanding, and the Result of the get is on its way to the caller
C2_Witness ==
  /\ ctl = "wait" /\ ctlReq.op = "get" /\ hist.base = 0
  /\ hist.issued = <<1, 2>> /\ hist.resolved = <<1, 2>>
  /\ resQ # <<>>

\* C3: when the driver's method raised kind K with arguments A while the
\* slot executed the caller's command, the caller's call raises K with A.
C3_ErrorSurfaces ==
  (ctl = "idle" /\ ctlOut.op \in Ops /\ hist.engExc # NoExc) =>
     (ctlOut.st = "raised" /\ ctlOut.exc = hist.engExc)

\* C4: no call of quit() raises, a call of quit() in progress can always
\* go on, and the second call finds the handle cleared.
C4_QuitTwice ==
  /\ ~(ctlOut.op = "quit" /\ ctlOut.st = "raised")
  /\ ctl \in QuitPcs => ENABLED SystemNext
  /\ nQuits >= 2 => drvChann = "none"

\* C5: when quit was sent while the Qt thread waited for a verdict, the
\* join of the _Interceptor thread and the join of the worker process both
\* return: the caller never waits in one of them with nothing left to run.
C5_QuitDuringRoundTrip ==
  hist.quitPending =>
     (ctl \in {"q_join", "p_join"} => ENABLED SystemNext)

\* the session is over: quit() returned, both controller ends are closed,
\* the _Interceptor thread (if started) has ended, the worker has exited
Terminated ==
  /\ ctlOut = Returned("quit", "None")
  /\ drvChann = "none" /\ cIc2 = "closed"
  /\ lst \in {"unstarted", "done"}
  /\ wp = "exited" /\ pJoined = nQuits

\* C6: once AppDriver.quit() was called, the caller is either on its way
\* (the program has a step to take) or back with the session Terminated.
C6_QuitTerminates ==
  nQuits >= 1 => IF ctl = "idle" THEN Terminated ELSE ENABLED SystemNext

\* C7: a predicate that raises yields the verdict False, the request it was
\* asked about is not blocked, and the _Interceptor thread goes on: it ends
\* only after quit, and until then a pending round trip always has a next step.
C7_PredicateFailure ==
  /\ \A i \in 1..Len(verQ) : verQ[i].raised => verQ[i].v = "False"
  /\ hist.last.raised => (hist.last.v = "False" /\ ~hist.last.blocked)
  /\ lst = "done" => nQuits >= 1
  /\ (RoundTripPending /\ nQuits = 0) =>
        ENABLED (InterceptorRecv \/ InterceptorReply \/ InterceptorVerdict)

\* the only predicate ever registered raises; two urls were answered
C7_Witness ==
  /\ nCalls = 1 /\ nQuits = 0 /\ iPred = "raises"
  /\ Len(hist.resolved) = 2 /\ hist.last.raised /\ lst = "recv"

\* C8: no exception leaves the slot, every command it finished put exactly
\* one Result on the pipe, and a waiting caller is never left with nothing
\* to run.
C8_DispatcherTotal ==
  /\ ~hist.escaped
  /\ hist.nRes = hist.nDone
  /\ ctl = "wait" => ENABLED SystemNext

\* C9: after an error descriptor was sent, and until quit is called, the
\* worker is intact, the slot is not running while the caller is idle, the
\* next command has a step to take and its Result is its own.
C9_ErrorsAreCallScoped ==
  (hist.nErr >= 1 /\ nQuits = 0) =>
     /\ wp = "running" /\ ~appQuit /\ mwAlive /\ mw \in {"test", "recv", "blocked", "emit"}
     /\ wDc1 = "open" /\ wIc1 = "open"
     /\ hist.nRes = hist.nDone
     /\ ctl = "idle" => (~SlotRunning /\ sigPending = 0 /\ cmdQ = <<>> /\ resQ = <<>>)
     /\ ctl = "wait" => (ENABLED SystemNext /\ (resQ # <<>> => Head(resQ).for = ctlReq.op))

\* a command failed, and the command after it returned its value
C9_Witness ==
  /\ hist.nErr = 1 /\ nCalls = 2 /\ nQuits = 0
  /\ ctl = "idle" /\ ctlOut.st = "returned"

\* C10 as stated: with the predicate `'ads' in url`, ads.js gets the verdict
\* false and is blocked, app.js gets the verdict true and is allowed.
C10_AsStated ==
  (hist.last.pred = "ads" /\ hist.last.url = hist.last.for) =>
     /\ UrlText[hist.last.url] = AdsJs => (hist.last.v = "False" /\ hist.last.blocked)
     /\ UrlText[hist.last.url] = AppJs => (hist.last.v = "True" /\ ~hist.last.blocked)

\* C10, amended: with the predicate `'ads' in url`, the round trip for
\* ads.js returns the verdict true and the request is blocked; the round
\* trip for app.js returns the verdict false and the request is allowed.
C10_VerdictBlocks ==
  hist.last.pred = "ads" =>
     /\ hist.last.url = hist.last.for
     /\ UrlText[hist.last.url] = AdsJs => (hist.last.v = "True" /\ hist.last.blocked)
     /\ UrlText[hist.last.url] = AppJs => (hist.last.v = "False" /\ ~hist.last.blocked)

\* ads.js was answered, then app.js, the latter by the predicate and allowed
C10_Witness ==
  /\ hist.resolved = <<1, 2>> /\ iPred = "ads" /\ nCalls = 1
  /\ hist.last.pred = "ads" /\ UrlText[hist.last.url] = AppJs /\ ~hist.last.blocked

QuitOrder ==
  IF lst = "unstarted"
    THEN <<"send_quit", "close_driver_chann", "close_interceptor_chann", "join_process">>
    ELSE <<"send_quit", "close_driver_chann", "send_sentinel", "join_thread",
           "close_interceptor_chann", "join_process">>

Logged(step) == \E i \in 1..Len(hist.qlog) : hist.qlog[i] = step

\* C12: the caller's thread completes the statements of quit in the order
\* send quit, close the command end, (sentinel, join the thread) if a thread
\* was started, close the interceptor end, join the process (a later call
\* of quit only joins the process again); and a statement is completed only
\* with its effect in place: the command end is open until it was closed
\* and after the quit was sent, the thread has ended when its join
\* returned, the worker has exited when its join returned.
C12_QuitOrder ==
  /\ \A i \in 1..Len(hist.qlog) :
        hist.qlog[i] = IF i <= Len(QuitOrder) THEN QuitOrder[i] ELSE "join_process"
  /\ Len(hist.qlog) <= Len(QuitOrder) + MaxQuits
  /\ drvChann = "open" <=> ~Logged("close_driver_chann")
  /\ drvChann = "none" <=> Logged("close_interceptor_chann")
  /\ Logged("send_sentinel") => lst # "unstarted"
  /\ Logged("join_thread") => lst = "done"
  /\ Logged("close_interceptor_chann") => cIc2 = "closed"
  /\ Logged("join_process") => wp = "exited"

\* quit ran to its end on a session whose thread was started
C12_Witness ==
  /\ ctl = "idle" /\ ctlOut = Returned("quit", "None")
  /\ hist.qlog = <<"send_quit", "close_driver_chann", "send_sentinel", "join_thread",
                   "close_interceptor_chann", "join_process">>

\* what the caller can tell of an outcome: returned or raised, the value,
\* the kind of the error
Observed(out) == [st |-> out.st, val |-> out.val, kind |-> out.exc.kind]

\* C13: every public method of WebDriver exists on _InteractiveWebDriver
\* with the same defaults, and execute_script has the same outcome (value
\* returned, or kind of error raised) on both for the same Engine state and
\* the same arguments.
C13_ApiIdentical ==
  /\ (fn.kind = "signature" /\ fn.interactive # <<"not looked up">>) =>
        fn.interactive = Signature(WebDriverApi, fn.op)
  /\ (fn.kind = "script" /\ fn.direct # NoOutcome /\ fn.interactive # NoOutcome) =>
        Observed(fn.interactive) = Observed(fn.direct)

\* the rectangle asked for (w and h not negative) lies outside the page
OutOfBounds(c) ==
  /\ c.w >= 0 /\ c.h >= 0
  /\ \/ c.x >= c.page_width \/ c.y >= c.page_height
     \/ c.x + c.w <= 0 \/ c.y + c.h <= 0

\* C14: grab of a rectangle that lies fully outside the page gives the
\* caller an empty image, carried by a successful Result.
C14_EmptyImage ==
  (fn.kind = "grab" /\ fn.pc = "done" /\ OutOfBounds(fn)) =>
     (fn.res.ok /\ fn.out = Returned("grab", NullImage))

\* C15: grab at x = 0, y = 0 with negative w and h on a page of positive
\* size computes the rectangle of the whole page, captures an image of
\* page_width x page_height, and the caller receives an image of that size.
C15_FullPage ==
  (/\ fn.kind = "grab" /\ fn.pc # "args"
   /\ fn.x = 0 /\ fn.y = 0 /\ fn.w < 0 /\ fn.h < 0
   /\ fn.page_width > 0 /\ fn.page_height > 0) =>
     /\ fn.rect = [x |-> 0, y |-> 0, w |-> fn.page_width, h |-> fn.page_height]
     /\ fn.img = Image(fn.page_width, fn.page_height)
     /\ fn.pc = "done" => fn.out = Returned("grab", Image(fn.page_width, fn.page_height))

\* grab(0, 0, -1, -3) on a page of 2 x 1 has returned to the caller
C15_Witness ==
  /\ fn.kind = "grab" /\ fn.pc = "done"
  /\ fn.x = 0 /\ fn.y = 0 /\ fn.w = -1 /\ fn.h = -3
  /\ fn.page_width = 2 /\ fn.page_height = 1
  /\ fn.out.st = "returned"

\* C16: whenever grab captures (its image is not the empty one), the
\* rectangle lies within the page: 0 <= x, 0 <= y, w > 0, h > 0,
\* x + w <= page_width and y + h <= page_height.
C16_RectWithinPage ==
  (fn.kind = "grab" /\ fn.pc # "args" /\ ~fn.img.null) =>
     /\ 0 <= fn.rect.x /\ 0 <= fn.rect.y /\ fn.rect.w > 0 /\ fn.rect.h > 0
     /\ fn.rect.x + fn.rect.w <= fn.page_width
     /\ fn.rect.y + fn.rect.h <= fn.page_height

\* C17: the handoff from the _MessageWorker thread to the slot holds one
\* message at most: while a received message waits for the slot (not yet
\* emitted, or its signal queued) no further message is there to receive
\* and none is received; the slot reads the message its signal was emitted
\* for; no message is dispatched twice or ahead of one received before it;
\* and while the event loop runs a received message always has its next
\* step towards the slot.
C17_DepthOneMailbox ==
  /\ sigPending <= 1 /\ Len(hist.sigMsgs) = sigPending
  /\ ~(mw = "emit" /\ sigPending = 1)
  /\ (mw = "emit" \/ sigPending = 1) => cmdQ = <<>>
  /\ ~hist.stale
  /\ hist.nRecv - hist.nEnter \in {0, 1}
  /\ hist.nRecv - hist.nEnter = (IF mw = "emit" \/ sigPending = 1 THEN 1 ELSE 0)
  /\ (hist.nRecv > hist.nEnter /\ wp = "running" /\ InLoop /\ ~appQuit) =>
        ENABLED (MessageWorkerEmit \/ SyncDriverEnter)

\* two commands and the quit message were received and dispatched
C17_Witness ==
  /\ hist.nRecv = 3 /\ hist.nEnter = 3 /\ nCalls = 2 /\ ~mwAlive

SlotFrames == {i \in 1..Len(engStack) : engStack[i].kind = "slot"}

\* C18: the slot is never entered while it runs, not even from the event
\* loop of the operation it is running: one slot frame at most is on the
\* Qt thread's stack, nothing is received or queued for dispatch while it
\* is there, and every command dispatched before the current one has had
\* its Result sent.
C18_DispatcherNotReentered ==
  /\ Cardinality(SlotFrames) <= 1
  /\ Len(engStack) <= 2
  /\ SlotRunning => (sigPending = 0 /\ mw # "emit" /\ cmdQ = <<>>)
  /\ hist.nDisp - hist.nDone = (IF SlotRunning /\ engStack[1].msg.op # "quit" THEN 1 ELSE 0)

\* the second command waits in its event loop, a request of the page is
\* being decided inside it, and the first command was answered
C18_Witness ==
  /\ Len(engStack) = 2 /\ engStack[1].kind = "slot" /\ engStack[1].pc = "nested"
  /\ engStack[2].kind = "icpt"
  /\ hist.nDisp = 2 /\ hist.nDone = 1

\* C19: once the slot has cleared the alive flag, the _MessageWorker
\* thread hands nothing over any more, and a read it waits in reports
\* end-of-stream as soon as the controller has closed its end of the
\* command pipe, so that the thread ends.
C19_MessageWorkerEnds ==
  ~mwAlive =>
     /\ sigPending = 0 /\ mw # "emit" /\ mwData.op = "quit"
     /\ (wp = "running" /\ mw = "blocked" /\ drvChann # "open") => ENABLED MessageWorkerWake

\* the statements of the quit branch of the slot, in program order
WorkerQuitOrder ==
  <<"clear_alive", "send_stop", "close_driver_chann", "close_interceptor_chann",
    "quit_app">>

\* the slot is in a statement of its quit branch (or in its except branch)
QuitBranchPcs == {"q_alive", "q_send", "q_close_dc", "q_close_ic", "q_appquit", "except"}

\* C20: for the quit message the slot calls no method of the driver and
\* sends no Result, and it completes its statements in the order: clear
\* the alive flag, send None on the interceptor pipe, close its end of the
\* command pipe, close its end of the interceptor pipe, quit the
\* application; each effect is in place exactly when its statement is done.
C20_WorkerQuitOrder ==
  /\ IsPrefix(hist.wlog, WorkerQuitOrder)
  /\ hist.nQuitRes = 0
  /\ \A i \in 1..Len(resQ) : resQ[i].for # "quit"
  /\ \A i \in SlotFrames : engStack[i].msg.op = "quit" => engStack[i].pc \in QuitBranchPcs
  /\ mwAlive <=> Len(hist.wlog) = 0
  /\ wDc1 = "closed" <=> Len(hist.wlog) >= 3
  /\ wIc1 = "closed" <=> Len(hist.wlog) >= 4
  /\ appQuit <=> Len(hist.wlog) = 5

\* the quit branch ran to its end and the worker has exited
C20_Witness ==
  /\ hist.wlog = WorkerQuitOrder /\ wp = "exited"

\* what the _Interceptor thread has taken off the pipe and put on it, from
\* what was sent to it and what is still in the queues
UrlsTaken ==
  Len(hist.issued) - Cardinality({i \in 1..Len(urlQ) : ~Falsy(urlQ[i])})

FalsySent ==
  (IF Logged("send_sentinel") THEN 1 ELSE 0) + (IF Len(hist.wlog) >= 2 THEN 1 ELSE 0)

FalsyTaken == FalsySent - Cardinality({i \in 1..Len(urlQ) : Falsy(urlQ[i])})

VerdictsSent == Len(hist.resolved) + Len(verQ)

\* C21: the _Interceptor thread has ended exactly when it has taken a
\* falsy message ('' or None) off the pipe; it takes one such message at
\* most, sends no verdict for it, and has closed interceptor_chann2 when it
\* has ended and not before; for every url it has taken it has sent exactly
\* one verdict, the url it is evaluating excepted.
C21_ListenerExitsOnFalsy ==
  /\ lst = "done" <=> FalsyTaken = 1
  /\ FalsyTaken \in {0, 1}
  /\ VerdictsSent = UrlsTaken - (IF lst = "eval" THEN 1 ELSE 0)
  /\ lst = "done" => cIc2 = "closed"
  /\ lst \in {"recv", "eval"} => cIc2 = "open"
  /\ lst = "eval" <=> lstUrl \in Urls

\* the thread answered two urls, then took a falsy message and ended
C21_Witness ==
  /\ lst = "done" /\ VerdictsSent = 2 /\ UrlsTaken = 2 /\ FalsyTaken = 1

\* messages sent towards the _Interceptor thread that it has not answered
\* (urls: still in the pipe or being evaluated) or not read (stop messages)
UrlsOutstanding ==
  Cardinality({i \in 1..Len(urlQ) : ~Falsy(urlQ[i])}) + (IF lst = "eval" THEN 1 ELSE 0)

StopsUnread == Cardinality({i \in 1..Len(urlQ) : Falsy(urlQ[i])})

\* C22 as stated: in every state, shutdown included, one message at most
\* sent towards the _Interceptor thread is unanswered or unread.
C22_AsStated == UrlsOutstanding + StopsUnread <= 1

\* C22, amended: one url at most is outstanding in every state, and one
\* verdict at most is in the pipe; until quit is called the url or its
\* verdict is in the pipe exactly while the Qt thread waits for the
\* verdict, and nothing else travels towards the thread.  In shutdown the
\* worker (None) and the controller ('') each send one stop message
\* without waiting for the other, so up to two stop messages, or a stop
\* message and an unanswered url, are in the pipe together.
C22_OneUrlOutstanding ==
  /\ UrlsOutstanding <= 1
  /\ Len(verQ) <= 1
  /\ UrlsOutstanding + Len(verQ) <= 1
  /\ nQuits = 0 => UrlsOutstanding + Len(verQ) = (IF RoundTripPending THEN 1 ELSE 0)
  /\ nQuits = 0 => StopsUnread = 0
  /\ StopsUnread <= 2 /\ FalsySent <= 2

\* shutdown: the stop message of the worker and the one of the controller
\* are in the pipe together, neither read yet
C22_Witness ==
  /\ urlQ = <<NoneVal, EmptyStr>> /\ lst = "recv"

\* C23: when the send of the quit command raised BrokenPipeError because
\* the worker was gone, quit() does not raise and is never left waiting:
\* it goes through the rest of its statements in order, and when it has
\* returned the command end is closed and its handle cleared, the
\* _Interceptor thread, if one was started, has ended and was joined, the
\* interceptor end is closed and the process was joined.
C23_QuitAfterWorkerGone ==
  hist.quitBroken =>
     /\ ~(ctlOut.op = "quit" /\ ctlOut.st = "raised")
     /\ ctl \in QuitPcs => ENABLED SystemNext
     /\ IF Len(hist.qlog) <= Len(QuitOrder)
          THEN IsPrefix(hist.qlog, QuitOrder)
          ELSE IsPrefix(QuitOrder, hist.qlog)
     /\ ctl = "idle" =>
          /\ ctlOut = Returned("quit", "None")
          /\ IsPrefix(QuitOrder, hist.qlog)
          /\ drvChann = "none" /\ cIc2 = "closed"
          /\ lst \in {"unstarted", "done"}
          /\ pJoined = nQuits

\* the worker was gone, quit() swallowed the broken pipe, stopped and joined
\* the thread that had been started, and returned
C23_Witness ==
  /\ hist.quitBroken /\ ctl = "idle" /\ ctlOut = Returned("quit", "None")
  /\ lst = "done" /\ drvChann = "none" /\ nQuits = 1

\* C24: from the moment the _Interceptor thread is started and until
\* quit() is called, the thread is in its loop (reading or evaluating),
\* interceptor_chann2 is open, and nothing but urls has been sent to it,
\* whichever urls the page requested and whatever the predicate did.
C24_ListenerLivesForSession ==
  (lst # "unstarted" /\ nQuits = 0) =>
     /\ lst \in {"recv", "eval"}
     /\ cIc2 = "open"
     /\ \A i \in 1..Len(urlQ) : urlQ[i] \in Urls
     /\ hist.wlog = <<>> /\ hist.qlog = <<>>

\* both urls were sent and answered, the session is still in use and the
\* thread is reading
C24_Witness ==
  /\ nQuits = 0 /\ hist.resolved = <<2, 1>> /\ lst = "recv" /\ cIc2 = "open"
  /\ ctl = "idle"

\* the command that makes the worker install self._interceptor
Enabling(msg) == msg.op = "interceptor" /\ msg.arg = <<TRUE>>

\* C25: until quit() is called, whenever the worker has self._interceptor
\* installed (it sends urls on the interceptor pipe) the _Interceptor
\* thread is running with interceptor_chann2 open; the thread was started
\* and the caller's predicate stored before the enabling command was sent
\* (from the moment the command is about to be sent to the moment its
\* Result is received); and a url the Qt thread waits on always has a next
\* step on the controller's side.
C25_ListenerBeforeEnable ==
  nQuits = 0 =>
     /\ wIcpt = "sync" => (lst \in {"recv", "eval"} /\ cIc2 = "open" /\ hist.nSet >= 1)
     /\ (ctl \in {"exec", "wait"} /\ Enabling(ctlReq)) =>
           (lst \in {"recv", "eval"} /\ iPred \in UserPreds \ {"none"})
     /\ \A i \in 1..Len(cmdQ) : Enabling(cmdQ[i]) => lst \in {"recv", "eval"}
     /\ RoundTripPending =>
           ENABLED (InterceptorRecv \/ InterceptorReply \/ InterceptorVerdict)

\* interception is enabled, the page requested a url, and the url waits in
\* the pipe for the thread, which is reading
C25_Witness ==
  /\ nQuits = 0 /\ wIcpt = "sync" /\ RoundTripPending
  /\ urlQ # <<>> /\ lst = "recv" /\ iPred = "ads"

\* C26: once set_url_request_interceptor(P) has returned, and until the
\* next call of it, every round trip the Qt thread starts is answered by P
\* for the url that was sent (False when P raises) and the request is
\* blocked exactly when the answer is True; once
\* set_url_request_interceptor(None) has returned, the worker has None
\* installed, no url is sent and no verdict received any more, so that no
\* request is blocked, however many requests the page makes.
C26_LatestPredicateAnswers ==
  /\ (hist.set.done /\ hist.set.on) =>
        /\ wIcpt = "sync" /\ iPred = hist.set.pred
        /\ \A i \in 1..Len(verQ) : verQ[i] = Verdict(hist.set.pred, verQ[i].for)
        /\ Len(hist.resolved) > hist.set.base =>
              /\ hist.last.url = hist.last.for
              /\ hist.last = Resolved(hist.last.url, Verdict(hist.set.pred, hist.last.url))
  /\ (hist.set.done /\ ~hist.set.on) =>
        /\ wIcpt = "none" /\ iPred = "default"
        /\ Len(hist.issued) = hist.set.base /\ Len(hist.resolved) = hist.set.base
        /\ ~RoundTripPending /\ urlQ \in {<<>>, <<EmptyStr>>, <<NoneVal>>, <<NoneVal, EmptyStr>>,
                                           <<EmptyStr, NoneVal>>}
        /\ verQ = <<>>

\* a first predicate was replaced by `'ads' in url`, and a url requested
\* after the second call returned was answered True and blocked
C26_Witness ==
  /\ hist.nSet = 2 /\ hist.set.done /\ hist.set.on /\ hist.set.pred = "ads"
  /\ hist.set.base = 0 /\ Len(hist.resolved) > hist.set.base
  /\ hist.last.v = "True" /\ hist.last.blocked

\* a predicate was set and a url answered, None was set, and the page
\* made a request that the worker, with None installed, let through
C26_DisabledWitness ==
  /\ hist.nSet = 2 /\ hist.set.done /\ ~hist.set.on /\ nQuits = 0
  /\ hist.set.base = 1 /\ nReq = 2

\* the two messages of _InteractiveWebDriver.execute_script, in order
ScriptCommands == <<Msg("execute_script", <<FALSE>>), Msg("get_last_js_error", <<>>)>>

\* C27: _InteractiveWebDriver.execute_script sends execute_script with the
\* raise flag False first and get_last_js_error second, the second only
\* when raise_if_js_error is True and only after the Result of the first
\* was received, so that one command at most is unanswered; when it is
\* done it has raised JsException exactly if raise_if_js_error is True and
\* the string returned by get_last_js_error is not empty, and has returned
\* the value of the first Result otherwise.
C27_ScriptThenLastError ==
  fn.kind = "iscript" =>
     /\ IsPrefix(fn.cmds, ScriptCommands)
     /\ Len(fn.cmds) - fn.nres \in {0, 1}
     /\ Len(fn.cmds) = 2 => (fn.raise_if_js_error /\ fn.nres >= 1 /\ fn.res1.ok)
     /\ (fn.pc = "done" /\ fn.raise_if_js_error) => fn.cmds = ScriptCommands
     /\ (fn.pc = "done" /\ ~fn.raise_if_js_error) => Len(fn.cmds) = 1
     /\ fn.pc = "done" =>
          /\ Len(fn.cmds) = fn.nres
          /\ (fn.out.st = "raised" /\ fn.out.exc.kind = "JsException")
                <=> (fn.raise_if_js_error /\ fn.res2.val # "")
          /\ fn.out.st = "raised" => fn.out.exc = Exc("JsException", <<fn.res2.val>>)
          /\ fn.out.st # "raised" => fn.out = Returned("execute_script", fn.res1.val)
          /\ fn.out = InteractiveExecuteScript(fn.result, fn.js_error, fn.raise_if_js_error)

\* a script that returned 1 and logged an error, run with
\* raise_if_js_error True: both commands were sent and JsException raised
C27_Witness ==
  /\ fn.kind = "iscript" /\ fn.pc = "done"
  /\ fn.result = "[1]" /\ fn.js_error = "err line 1" /\ fn.raise_if_js_error
  /\ fn.cmds = ScriptCommands /\ fn.nres = 2
  /\ fn.out = Raised("execute_script", Exc("JsException", <<"err line 1">>))

=============================================================================
